---- MODULE Spec2Model ----
(***************************************************************************)
(* Model of backend/internal/proxy-host.js: the proxy-host orchestration   *)
(* (create, update, get, delete, getAll, getCount) over the proxy_host     *)
(* table, the hostname registry, the nginx publisher and the audit log.    *)
(* Every promise continuation that touches shared state (a query, a write, *)
(* an external call) is one step of a call, so calls can interleave at     *)
(* exactly the places where the code awaits.                               *)
(***************************************************************************)
EXTENDS Integers, Sequences, FiniteSets, TLC

(* ------------------------- bounds and inputs --------------------------- *)

\* Total number of create/update/delete calls started in one behaviour.
MaxCalls == 3

\* Concurrent request slots.
Procs == {1, 2}

\* The actors: access.token.get('attrs').id and the permission_visibility
\* that access.can() resolves for them. Every access.can() grants: a denial
\* ends a call before it touches anything.
Actors == {[id |-> "U1", visibility |-> "user"], [id |-> "U2", visibility |-> "all"]}

Users == {a.id : a \in Actors}

NoFields == [k \in {} |-> 0]

\* The payloads create() is called with: domain_names (non-empty, ordered),
\* alone or with further fields.
CreatePayloads ==
    {[domain_names |-> <<"a.example.com">>],
     [domain_names |-> <<"b.example.com">>],
     [domain_names |-> <<"a.example.com", "b.example.com">>],
     [domain_names |-> <<"b.example.com">>, is_deleted |-> 1],
     [domain_names |-> <<"a.example.com">>, owner_user_id |-> "U1",
      meta |-> [k1 |-> 1, nginx_online |-> 0]]}

\* The fields update() is called with besides id.
UpdatePayloads ==
    {[domain_names |-> <<"a.example.com">>],
     [domain_names |-> <<"b.example.com">>],
     [is_deleted |-> 0],
     [owner_user_id |-> "U1", meta |-> [k2 |-> 1]]}

(* --------------------------- pure helpers ------------------------------ *)

Has(data, f) == f \in DOMAIN data

\* JavaScript object spread / _.assign({}, a, b): b's keys override a's.
Assign(a, b) == [k \in (DOMAIN a) \cup (DOMAIN b) |-> IF k \in DOMAIN b THEN b[k] ELSE a[k]]

Range(s) == {s[i] : i \in DOMAIN s}

EmptyMeta == [k \in {} |-> 0]

NoRow == [id |-> 0]

omissions == {"is_deleted"}

\* _.omit(row, keys) and the query builder's omit(keys): drops the keys from a
\* result row.
Omit(row, keys) == [k \in (DOMAIN row) \ keys |-> row[k]]

\* Keys internalHost.cleanMeta removes before a row is exposed.
InternalMetaKeys == {"nginx_err"}

cleanMeta(meta) == [k \in (DOMAIN meta) \ InternalMetaKeys |-> meta[k]]

\* internalHost.isHostnameTaken(hostname, ignore_type, ignore_id): some active
\* host other than ignore_id carries the name (ignore_id = 0: no exclusion).
isHostnameTaken(rs, hostname, ignore_id) ==
    \E i \in DOMAIN rs :
        /\ rs[i].is_deleted = 0
        /\ rs[i].id # ignore_id
        /\ hostname \in Range(rs[i].domain_names)

\* Variant: the error names the last taken name in request order.
LastTaken(taken) == IF taken = {} THEN 0 ELSE CHOOSE i \in taken : \A j \in taken : i >= j

\* check_results.map(...): the results are walked in request order and the
\* first taken one throws; 0 when none is taken.
FirstTaken(taken) == IF taken = {} THEN 0 ELSE CHOOSE i \in taken : \A j \in taken : i <= j

\* Variant: the caller's owner_user_id is left in place.
WithCallerOwner(data, actor) == data

\* data.owner_user_id = access.token.get('attrs').id
WithOwner(data, actor) == Assign(data, [owner_user_id |-> actor.id])

\* insertAndFetch(data): the stored row is the payload's columns over the
\* table's defaults, under the next auto-increment id.
InsertRow(rs, data) ==
    Assign([id |-> Len(rs) + 1, domain_names |-> <<>>, owner_user_id |-> "", meta |-> EmptyMeta,
            is_deleted |-> 0],
           data)

\* patchAndFetchById(id, data): every column the payload carries replaces the
\* stored one; the others are kept.
PatchRow(row, data) == Assign(row, data)

\* Variant: the query without where('is_deleted', 0).
GetQueryAnyState(rs, actor, id) ==
    IF /\ id \in DOMAIN rs
       /\ (actor.visibility # "all" => rs[id].owner_user_id = actor.id)
    THEN rs[id]
    ELSE NoRow

\* The query of get(): the active row with this id, owned by the actor when
\* the visibility is not 'all'; NoRow when there is none.
GetQuery(rs, actor, id) ==
    IF /\ id \in DOMAIN rs
       /\ rs[id].is_deleted = 0
       /\ (actor.visibility # "all" => rs[id].owner_user_id = actor.id)
    THEN rs[id]
    ELSE NoRow

\* Variant: get() without the cleanMeta of the row.
GetResultRaw(rs, actor, id) ==
    LET row == GetQuery(rs, actor, id)
    IN  IF row # NoRow
        THEN Omit(row, omissions)
        ELSE NoRow

\* The second half of get(): sanitise and strip, or ItemNotFoundError.
GetResult(rs, actor, id) ==
    LET row == GetQuery(rs, actor, id)
    IN  IF row # NoRow
        THEN Omit(Assign(row, [meta |-> cleanMeta(row.meta)]), omissions)
        ELSE NoRow

(* ------------------------------- state --------------------------------- *)

VARIABLES
    rows,       \* the proxy_host table: rows[id] is the stored row, never erased
    born,       \* born[id]: id, owner_user_id and is_deleted as insertAndFetch stored them
    calls,      \* calls[p]: the request running in slot p
    audit,      \* the audit log, oldest entry first: action, object_type, object_id, user
    published,  \* ids whose nginx configuration is on disk
    started     \* number of calls started so far

vars == <<rows, born, calls, audit, published, started>>

Idle ==
    [op |-> "idle", pc |-> "idle", actor |-> [id |-> "", visibility |-> ""], data |-> NoFields,
     pending |-> {}, taken |-> {}, row |-> NoRow, result |-> "none", hostname |-> "",
     returned |-> NoRow, list |-> {}, count |-> 0, logged |-> NoFields, input |-> NoFields,
     trace |-> <<>>, order |-> <<>>]

Init ==
    /\ rows = <<>>
    /\ born = <<>>
    /\ calls = [p \in Procs |-> Idle]
    /\ audit = <<>>
    /\ published = {}
    /\ started = 0

\* No finished call is waiting to hand over its result: a result is delivered
\* before anything else runs (delivery touches no shared state).
Quiet == \A q \in Procs : calls[q].pc # "done"

\* Slot p can take a new request.
Free(p) == Quiet /\ calls[p].pc = "idle"

\* A new request takes the first free slot.
FirstFree(p) == Free(p) /\ \A q \in Procs : q < p => ~Free(q)

\* A call moves on: new pc, the step appended to its trace, and the fields in upd.
Step(c, pc, name, upd) == Assign(c, Assign([pc |-> pc, trace |-> Append(c.trace, name)], upd))

\* A call ends by throwing.
Throw(c, name, err) == Step(c, "done", name, [result |-> err])

Begin(op, pc, actor, data) ==
    Assign(Idle, [op |-> op, pc |-> pc, actor |-> actor, data |-> data, input |-> data])

(* ------------------------------ create --------------------------------- *)

\* create(access, data): access.can('proxy_hosts:create'), then one
\* isHostnameTaken lookup is issued per requested name.
StartCreate(p) ==
    /\ FirstFree(p)
    /\ started < MaxCalls
    /\ \E actor \in Actors, data \in CreatePayloads :
        calls' = [calls EXCEPT ![p] =
            Assign(Begin("create", "check", actor, data), [pending |-> DOMAIN data.domain_names])]
    /\ started' = started + 1
    /\ UNCHANGED <<rows, born, audit, published>>

\* Variant: the lookup results are never examined.
AfterChecksIgnored(c, taken, next) ==
    Step(c, next, "check", [pending |-> {}, taken |-> taken, order |-> <<>>])

\* Where a call goes once Promise.all has every lookup result: the first taken
\* name in request order throws ValidationError, otherwise the pipeline goes on.
AfterChecks(c, taken, next) ==
    IF FirstTaken(taken) # 0
    THEN Assign(Throw(c, "check", "ValidationError"),
                [hostname |-> c.data.domain_names[FirstTaken(taken)], pending |-> {},
                 taken |-> taken])
    ELSE Step(c, next, "check", [pending |-> {}, taken |-> taken, order |-> <<>>])

\* Variant: update() passes no record to leave out.
IgnoreNone(c) == 0

\* The record a call's lookups leave out: update() passes ('proxy', data.id),
\* create() passes nothing.
IgnoreId(c) == IF c.op = "update" THEN c.data.id ELSE 0

\* One isHostnameTaken lookup of a call resolves (in any order); the last one
\* to resolve lets Promise.all continue. `order` keeps the order in which the
\* lookups resolved while the check runs and when it rejects the call.
Lookup(p) ==
    /\ Quiet
    /\ calls[p].pc = "check"
    /\ \E i \in calls[p].pending :
        LET c == Assign(calls[p], [order |-> Append(calls[p].order, i)])
            hit == isHostnameTaken(rows, c.data.domain_names[i], IgnoreId(c))
            taken == IF hit THEN c.taken \cup {i} ELSE c.taken
            left == c.pending \ {i}
        IN  calls' = [calls EXCEPT ![p] =
                IF left # {}
                THEN Assign(c, [pending |-> left, taken |-> taken])
                ELSE AfterChecks(c, taken, IF c.op = "create" THEN "insert" ELSE "get")]
    /\ UNCHANGED <<rows, born, audit, published, started>>

\* Variant: the insert is refused when an active host holds a requested name
\* at that moment (a uniqueness constraint in the storage layer).
CreateInsertUnique(p) ==
    /\ Quiet
    /\ calls[p].pc = "insert"
    /\ LET c == calls[p]
           data == WithOwner(c.data, c.actor)
           row == InsertRow(rows, data)
       IN  IF \E i \in DOMAIN data.domain_names : isHostnameTaken(rows, data.domain_names[i], 0)
           THEN /\ calls' = [calls EXCEPT ![p] = Throw(c, "insert", "ValidationError")]
                /\ UNCHANGED <<rows, born>>
           ELSE /\ rows' = Append(rows, row)
                /\ born' = Append(born, [f \in {"id", "owner_user_id", "is_deleted"} |-> row[f]])
                /\ calls' = [calls EXCEPT ![p] =
                       Step(c, "configure", "insert", [data |-> data, row |-> Omit(row, omissions)])]
    /\ UNCHANGED <<audit, published, started>>

\* data.owner_user_id = actor; insertAndFetch(data).
CreateInsert(p) ==
    /\ Quiet
    /\ calls[p].pc = "insert"
    /\ LET c == calls[p]
           data == WithOwner(c.data, c.actor)
           row == InsertRow(rows, data)
       IN  /\ rows' = Append(rows, row)
           /\ born' = Append(born, [f \in {"id", "owner_user_id", "is_deleted"} |-> row[f]])
           /\ calls' = [calls EXCEPT ![p] =
                  Step(c, "configure", "insert", [data |-> data, row |-> Omit(row, omissions)])]
    /\ UNCHANGED <<audit, published, started>>

\* internalNginx.configure(model, 'proxy_host', row): writes the host's nginx
\* configuration and records the outcome in the stored row's meta; may fail.
Configure(p) ==
    /\ Quiet
    /\ calls[p].pc = "configure"
    /\ \E ok \in BOOLEAN :
        LET c == calls[p]
            id == c.row.id
        IN  IF ok
            THEN /\ published' = published \cup {id}
                 /\ rows' = [rows EXCEPT ![id].meta =
                        Assign(@, [nginx_online |-> 1, nginx_err |-> 0])]
                 /\ calls' = [calls EXCEPT ![p] = Step(c, "get", "configure", NoFields)]
            ELSE /\ calls' = [calls EXCEPT ![p] = Throw(c, "configure", "ConfigError")]
                 /\ UNCHANGED <<rows, published>>
    /\ UNCHANGED <<born, audit, started>>

\* The id a call's get() looks up: the inserted row's for create, data.id else.
GetId(c) == IF c.op = "create" THEN c.row.id ELSE c.data.id

AfterGet(op) ==
    CASE op = "create" -> "audit"
      [] op = "update" -> "patch"
      [] op = "delete" -> "patch"

\* internalProxyHost.get(access, {id}): access.can('proxy_hosts:get'), the
\* query, then the sanitised row or ItemNotFoundError; as create(), update()
\* and delete() call it.
Get(p) ==
    /\ Quiet
    /\ calls[p].pc = "get"
    /\ LET c == calls[p]
           row == GetResult(rows, c.actor, GetId(c))
       IN  calls' = [calls EXCEPT ![p] =
               IF row = NoRow THEN Throw(c, "get", "ItemNotFoundError")
               ELSE Step(c, AfterGet(c.op), "get", [row |-> row])]
    /\ UNCHANGED <<rows, born, audit, published, started>>

\* Variant: the audit entry does not carry the record's id.
AuditEntryNoId(action, c, meta) ==
    [action |-> action, object_type |-> "proxy-host", object_id |-> 0,
     user |-> c.actor.id, meta |-> meta]

\* The entry handed to internalAuditLog.add.
AuditEntry(action, c, meta) ==
    [action |-> action, object_type |-> "proxy-host", object_id |-> c.row.id,
     user |-> c.actor.id, meta |-> meta]

\* What the log keeps of an entry; the entry's meta payload stays with the
\* call that wrote it (calls[p].logged).
Logged(entry) == Omit(entry, {"meta"})

\* Variant: the arguments of _.assign the other way round.
AuditMetaCallerLast(data, row) ==
    Assign(row.meta, IF Has(data, "meta") THEN data.meta ELSE EmptyMeta)

\* _.assign({}, data.meta || {}, row.meta): the caller's meta, then the
\* re-fetched row's meta over it.
AuditMeta(data, row) ==
    Assign(IF Has(data, "meta") THEN data.meta ELSE EmptyMeta, row.meta)

\* data.meta = _.assign({}, data.meta || {}, row.meta); internalAuditLog.add;
\* create() returns the re-fetched row.
CreateAudit(p) ==
    /\ Quiet
    /\ calls[p].pc = "audit"
    /\ calls[p].op = "create"
    /\ \E ok \in BOOLEAN :
        LET c == calls[p]
            data == Assign(c.data, [meta |-> AuditMeta(c.data, c.row)])
        IN  IF ok
            THEN /\ audit' = Append(audit, Logged(AuditEntry("created", c, data)))
                 /\ calls' = [calls EXCEPT ![p] =
                        Step(c, "done", "audit",
                             [data |-> data, result |-> "ok", returned |-> c.row,
                              logged |-> AuditEntry("created", c, data)])]
            ELSE /\ calls' = [calls EXCEPT ![p] =
                        Assign(Throw(c, "audit", "AuditError"), [data |-> data])]
                 /\ UNCHANGED audit
    /\ UNCHANGED <<rows, born, published, started>>

(* ------------------------------ update --------------------------------- *)

\* update(access, data): access.can('proxy_hosts:update'); the lookups are
\* issued only when the payload carries domain_names.
StartUpdate(p) ==
    /\ FirstFree(p)
    /\ started < MaxCalls
    /\ \E actor \in Actors, id \in DOMAIN rows, fields \in UpdatePayloads :
        LET data == Assign([id |-> id], fields)
        IN  calls' = [calls EXCEPT ![p] =
                IF Has(data, "domain_names")
                THEN Assign(Begin("update", "check", actor, data),
                            [pending |-> DOMAIN data.domain_names])
                ELSE Begin("update", "get", actor, data)]
    /\ started' = started + 1
    /\ UNCHANGED <<rows, born, audit, published>>

\* The id sanity check, then patchAndFetchById(row.id, data) and cleanMeta on
\* the saved row.
UpdatePatch(p) ==
    /\ Quiet
    /\ calls[p].pc = "patch"
    /\ calls[p].op = "update"
    /\ LET c == calls[p]
           id == c.row.id
           saved == PatchRow(rows[id], c.data)
       IN  IF id # c.data.id
           THEN /\ calls' = [calls EXCEPT ![p] = Throw(c, "patch", "InternalValidationError")]
                /\ UNCHANGED rows
           ELSE /\ rows' = [rows EXCEPT ![id] = saved]
                /\ calls' = [calls EXCEPT ![p] =
                       Step(c, "audit", "patch",
                            [returned |-> Omit(Assign(saved, [meta |-> cleanMeta(saved.meta)]),
                                               omissions)])]
    /\ UNCHANGED <<born, audit, published, started>>

\* internalAuditLog.add({action: 'updated', ...}); update() returns the saved row.
UpdateAudit(p) ==
    /\ Quiet
    /\ calls[p].pc = "audit"
    /\ calls[p].op = "update"
    /\ \E ok \in BOOLEAN :
        LET c == calls[p]
        IN  IF ok
            THEN /\ audit' = Append(audit, Logged(AuditEntry("updated", c, c.data)))
                 /\ calls' = [calls EXCEPT ![p] =
                        Step(c, "done", "audit",
                             [result |-> "ok", logged |-> AuditEntry("updated", c, c.data)])]
            ELSE /\ calls' = [calls EXCEPT ![p] =
                        Assign(Throw(c, "audit", "AuditError"), [returned |-> NoRow])]
                 /\ UNCHANGED audit
    /\ UNCHANGED <<rows, born, published, started>>

(* ------------------------------ delete --------------------------------- *)

\* delete(access, data): access.can('proxy_hosts:delete'), then get().
StartDelete(p) ==
    /\ FirstFree(p)
    /\ started < MaxCalls
    /\ \E actor \in Actors, id \in DOMAIN rows :
        calls' = [calls EXCEPT ![p] = Begin("delete", "get", actor, [id |-> id])]
    /\ started' = started + 1
    /\ UNCHANGED <<rows, born, audit, published>>

\* query().where('id', row.id).patch({is_deleted: 1})
DeletePatch(p) ==
    /\ Quiet
    /\ calls[p].pc = "patch"
    /\ calls[p].op = "delete"
    /\ LET c == calls[p]
       IN  /\ rows' = [rows EXCEPT ![c.row.id].is_deleted = 1]
           /\ calls' = [calls EXCEPT ![p] = Step(c, "deleteConfig", "patch", NoFields)]
    /\ UNCHANGED <<born, audit, published, started>>

\* Variant: the reload follows deleteConfig whether it resolved or rejected.
DeleteConfigUngated(p) ==
    /\ Quiet
    /\ calls[p].pc = "deleteConfig"
    /\ \E ok \in BOOLEAN :
        LET c == calls[p]
        IN  /\ published' = IF ok THEN published \ {c.row.id} ELSE published
            /\ calls' = [calls EXCEPT ![p] = Step(c, "reload", "deleteConfig", NoFields)]
    /\ UNCHANGED <<rows, born, audit, started>>

\* internalNginx.deleteConfig('proxy_host', row); may fail.
DeleteConfig(p) ==
    /\ Quiet
    /\ calls[p].pc = "deleteConfig"
    /\ \E ok \in BOOLEAN :
        LET c == calls[p]
        IN  IF ok
            THEN /\ published' = published \ {c.row.id}
                 /\ calls' = [calls EXCEPT ![p] = Step(c, "reload", "deleteConfig", NoFields)]
            ELSE /\ calls' = [calls EXCEPT ![p] = Throw(c, "deleteConfig", "ConfigError")]
                 /\ UNCHANGED published
    /\ UNCHANGED <<rows, born, audit, started>>

\* Variant: a failed reload undoes the soft delete.
ReloadRollback(p) ==
    /\ Quiet
    /\ calls[p].pc = "reload"
    /\ \E ok \in BOOLEAN :
        LET c == calls[p]
        IN  IF ok
            THEN /\ calls' = [calls EXCEPT ![p] = Step(c, "audit", "reload", NoFields)]
                 /\ UNCHANGED rows
            ELSE /\ calls' = [calls EXCEPT ![p] = Throw(c, "reload", "ReloadError")]
                 /\ rows' = [rows EXCEPT ![c.row.id].is_deleted = 0]
    /\ UNCHANGED <<born, audit, published, started>>

\* internalNginx.reload(), only after deleteConfig resolved; may fail.
Reload(p) ==
    /\ Quiet
    /\ calls[p].pc = "reload"
    /\ \E ok \in BOOLEAN :
        LET c == calls[p]
        IN  calls' = [calls EXCEPT ![p] =
                IF ok THEN Step(c, "audit", "reload", NoFields)
                ELSE Throw(c, "reload", "ReloadError")]
    /\ UNCHANGED <<rows, born, audit, published, started>>

\* row.meta = cleanMeta(row.meta); internalAuditLog.add({action: 'deleted',
\* meta: _.omit(row, omissions())}); delete() returns true.
DeleteAudit(p) ==
    /\ Quiet
    /\ calls[p].pc = "audit"
    /\ calls[p].op = "delete"
    /\ \E ok \in BOOLEAN :
        LET c == calls[p]
            row == Omit(Assign(c.row, [meta |-> cleanMeta(c.row.meta)]), omissions)
        IN  IF ok
            THEN /\ audit' = Append(audit, Logged(AuditEntry("deleted", c, row)))
                 /\ calls' = [calls EXCEPT ![p] =
                        Step(c, "done", "audit",
                             [result |-> "ok", logged |-> AuditEntry("deleted", c, row)])]
            ELSE /\ calls' = [calls EXCEPT ![p] = Throw(c, "audit", "AuditError")]
                 /\ UNCHANGED audit
    /\ UNCHANGED <<rows, born, published, started>>

(* ------------------------------- reads --------------------------------- *)

\* get(access, {id}) called by the user: access.can('proxy_hosts:get') and the
\* query, one read of the table.
GetOne(p) ==
    /\ Free(p)
    /\ \E actor \in Actors, id \in DOMAIN rows :
        LET c0 == Begin("get", "get", actor, [id |-> id])
            row == GetResult(rows, actor, id)
        IN  calls' = [calls EXCEPT ![p] =
                IF row = NoRow THEN Throw(c0, "get", "ItemNotFoundError")
                ELSE Step(c0, "done", "get", [row |-> row, result |-> "ok", returned |-> row])]
    /\ UNCHANGED <<rows, born, audit, published, started>>

\* Variant: getAll() without where('is_deleted', 0).
GetAllRowsAnyState(rs, actor, search) ==
    {Omit(Assign(rs[i], [meta |-> cleanMeta(rs[i].meta)]), {"is_deleted"}) :
        i \in {j \in DOMAIN rs :
                  /\ (actor.visibility # "all" => rs[j].owner_user_id = actor.id)
                  /\ (search # "" => search \in Range(rs[j].domain_names))}}

\* The rows the query of getAll() selects: active, owned by the actor unless
\* the visibility is 'all', matching the search string when one is given;
\* each with is_deleted omitted and meta sanitised. The search string is a
\* whole name; the orderBy of the result is not represented.
GetAllRows(rs, actor, search) ==
    {Omit(Assign(rs[i], [meta |-> cleanMeta(rs[i].meta)]), {"is_deleted"}) :
        i \in {j \in DOMAIN rs :
                  /\ rs[j].is_deleted = 0
                  /\ (actor.visibility # "all" => rs[j].owner_user_id = actor.id)
                  /\ (search # "" => search \in Range(rs[j].domain_names))}}

\* getAll(access, expand, search_query): one query.
GetAll(p) ==
    /\ Free(p)
    /\ \E actor \in Actors, search \in {"", "a.example.com"} :
        LET c0 == Begin("getAll", "done", actor, [search |-> search])
        IN  calls' = [calls EXCEPT ![p] =
                Step(c0, "done", "query",
                     [result |-> "ok", list |-> GetAllRows(rows, actor, search)])]
    /\ UNCHANGED <<rows, born, audit, published, started>>

\* Variant: getCount() without the owner_user_id condition.
CountRowsAnyOwner(rs, user_id, visibility) ==
    Cardinality({i \in DOMAIN rs : rs[i].is_deleted = 0})

\* The count query of getCount(): active rows, of user_id unless visibility is 'all'.
CountRows(rs, user_id, visibility) ==
    Cardinality({i \in DOMAIN rs :
        /\ rs[i].is_deleted = 0
        /\ (visibility # "all" => rs[i].owner_user_id = user_id)})

\* getCount(user_id, visibility): no access check, one query.
GetCount(p) ==
    /\ Free(p)
    /\ \E user_id \in Users, visibility \in {"user", "all"} :
        LET c0 == Begin("getCount", "done", [id |-> user_id, visibility |-> visibility], NoFields)
        IN  calls' = [calls EXCEPT ![p] =
                Step(c0, "done", "query",
                     [result |-> "ok", count |-> CountRows(rows, user_id, visibility)])]
    /\ UNCHANGED <<rows, born, audit, published, started>>

(* --------------------------- specifications ---------------------------- *)

Start(p) ==
    \/ StartCreate(p)
    \/ StartUpdate(p)
    \/ StartDelete(p)

Read(p) ==
    \/ GetOne(p)
    \/ GetAll(p)
    \/ GetCount(p)

Continue(p) ==
    \/ Lookup(p)
    \/ CreateInsert(p)
    \/ Configure(p)
    \/ Get(p)
    \/ CreateAudit(p)
    \/ UpdatePatch(p)
    \/ UpdateAudit(p)
    \/ DeletePatch(p)
    \/ DeleteConfig(p)
    \/ Reload(p)
    \/ DeleteAudit(p)

\* The result reaches the caller and the slot is free again.
Return(p) ==
    /\ calls[p].pc = "done"
    /\ calls' = [calls EXCEPT ![p] = Idle]
    /\ UNCHANGED <<rows, born, audit, published, started>>

\* Calls interleave freely at their await points.
Next == \E p \in Procs : Return(p) \/ Start(p) \/ Continue(p)

Spec == Init /\ [][Next]_vars

\* Calls run one at a time: each call runs to completion before the next starts.
NextSeq == Return(1) \/ Start(1) \/ Continue(1)

SpecSeq == Init /\ [][NextSeq]_vars

\* Calls run one at a time, and get(), getAll() and getCount() read the table
\* between them.
NextRead == NextSeq \/ Read(1)

SpecRead == Init /\ [][NextRead]_vars

(* ------------------------------- claims -------------------------------- *)

\* Errors that come from a collaborator failing, not from the orchestration.
CollaboratorErrors == {"ConfigError", "ReloadError", "AuditError"}

Active(i) == rows[i].is_deleted = 0

Steps(c) == Range(c.trace)

\* The names of c's request that an active host other than `except` holds now.
Conflicts(c, except) ==
    {n \in Range(c.data.domain_names) :
        \E j \in DOMAIN rows : Active(j) /\ j # except /\ n \in Range(rows[j].domain_names)}

\* C1: a create() whose lookups found a requested name taken ends with
\* ValidationError naming such a name and has done nothing but the check (no
\* insert, no configure, no audit); a create() whose lookups found no name
\* taken, and whose collaborators did not fail, succeeds and its record is active.
C1_CreateConflictOrSuccess ==
    \A p \in Procs :
        LET c == calls[p]
        IN  (c.op = "create" /\ c.pc = "done") =>
                IF c.taken # {}
                THEN /\ c.result = "ValidationError"
                     /\ c.hostname \in {c.data.domain_names[i] : i \in c.taken}
                     /\ c.trace = <<"check">>
                ELSE c.result \notin CollaboratorErrors =>
                        /\ c.result = "ok"
                        /\ Active(c.row.id)

\* C2: with calls run one at a time, no name is in the domain_names of two
\* distinct active records.
C2_UniqueActiveNames ==
    \A i, j \in DOMAIN rows :
        (i # j /\ Active(i) /\ Active(j)) =>
            Range(rows[i].domain_names) \cap Range(rows[j].domain_names) = {}

\* Two active records exist and a request for a name one of them holds was
\* turned down.
C2_Witness ==
    /\ \E i, j \in DOMAIN rows : i # j /\ Active(i) /\ Active(j)
    /\ \E p \in Procs : calls[p].result = "ValidationError"

HasDeletedEntry(id) ==
    \E k \in DOMAIN audit : audit[k].action = "deleted" /\ audit[k].object_id = id

\* C3: delete() twice in sequence. A delete() that returns true has run
\* get, patch, deleteConfig, reload, audit and left is_deleted = 1; a delete()
\* of a record the actor can see active never ends without the write (it
\* returns true unless a collaborator fails); and a delete() of an id an
\* earlier delete() returned true for ends with ItemNotFoundError having done
\* nothing but the get (no write, no deleteConfig, no reload, no audit).
C3_DeleteTwice ==
    \A p \in Procs :
        LET c == calls[p]
            id == c.data.id
        IN  c.op = "delete" =>
                /\ (c.pc = "done" /\ c.result = "ok") =>
                        /\ rows[id].is_deleted = 1
                        /\ c.trace = <<"get", "patch", "deleteConfig", "reload", "audit">>
                /\ (c.pc = "done" /\ c.result \notin CollaboratorErrors \cup {"ok"}) =>
                        /\ c.result = "ItemNotFoundError"
                        /\ c.trace = <<"get">>
                        /\ GetQuery(rows, c.actor, id) = NoRow
                /\ (HasDeletedEntry(id) /\ "audit" \notin Steps(c)) =>
                        /\ c.pc \in {"get", "done"}
                        /\ c.pc = "done" => (c.result = "ItemNotFoundError" /\ c.trace = <<"get">>)

\* The second delete() of an id has failed with ItemNotFoundError.
C3_Witness ==
    \E p \in Procs :
        /\ calls[p].op = "delete"
        /\ calls[p].pc = "done"
        /\ calls[p].result = "ItemNotFoundError"
        /\ HasDeletedEntry(calls[p].data.id)

\* C4: with calls run one at a time, an update() carrying domain_names gets
\* ValidationError exactly when an active host other than input.id holds one
\* of the names, and the error names such a name; names held only by the
\* record input.id itself raise no conflict.
C4_UpdateSelfExclusion ==
    \A p \in Procs :
        LET c == calls[p]
        IN  (/\ c.op = "update"
             /\ Has(c.data, "domain_names")
             /\ c.pc # "check"
             /\ "patch" \notin Steps(c)) =>
                /\ (c.result = "ValidationError") <=> (Conflicts(c, c.data.id) # {})
                /\ (c.result = "ValidationError") => (c.hostname \in Conflicts(c, c.data.id))

\* An update() that resubmits a name its own active record holds has passed
\* the check.
C4_Witness ==
    \E p \in Procs :
        LET c == calls[p]
        IN  /\ c.op = "update"
            /\ Has(c.data, "domain_names")
            /\ c.pc = "patch"
            /\ Range(c.data.domain_names) \cap Range(rows[c.data.id].domain_names) # {}

\* The active rows a (user_id, visibility) scope covers.
InScope(user_id, visibility) ==
    {i \in DOMAIN rows : visibility # "all" => rows[i].owner_user_id = user_id}

\* C5: for an actor whose visibility is not "all", get() returns only a row the
\* actor owns and fails with ItemNotFoundError on any other, getAll() lists
\* only rows the actor owns; getCount(user_id, visibility) is the number of
\* active rows of user_id, and of all active rows when visibility is "all".
C5_ScopedReads ==
    \A p \in Procs :
        LET c == calls[p]
            scoped == c.actor.visibility # "all"
        IN  /\ (c.op = "get" /\ c.pc = "done" /\ scoped) =>
                /\ c.result = "ok" =>
                        /\ c.returned.owner_user_id = c.actor.id
                        /\ rows[c.returned.id].owner_user_id = c.actor.id
                /\ (c.data.id \in DOMAIN rows /\ rows[c.data.id].owner_user_id # c.actor.id) =>
                        c.result = "ItemNotFoundError"
            /\ (c.op \in {"create", "update", "delete"} /\ "get" \in Steps(c) /\ scoped
                    /\ c.result # "ItemNotFoundError") =>
                c.row.owner_user_id = c.actor.id
            /\ (c.op = "getAll" /\ c.pc = "done" /\ scoped) =>
                \A r \in c.list :
                    r.owner_user_id = c.actor.id /\ rows[r.id].owner_user_id = c.actor.id
            /\ (c.op = "getCount" /\ c.pc = "done") =>
                c.count = Cardinality({i \in DOMAIN rows :
                              /\ Active(i)
                              /\ (scoped => rows[i].owner_user_id = c.actor.id)})

\* A scoped actor's get() of another user's active row has failed with
\* ItemNotFoundError.
C5_Witness ==
    \E p \in Procs :
        LET c == calls[p]
        IN  /\ c.op = "get"
            /\ c.pc = "done"
            /\ c.actor.visibility # "all"
            /\ c.data.id \in DOMAIN rows
            /\ Active(c.data.id)
            /\ rows[c.data.id].owner_user_id # c.actor.id
            /\ c.result = "ItemNotFoundError"

\* C6: no read path returns a record whose is_deleted is set: get() on it
\* fails with ItemNotFoundError, getAll() does not list it and getCount() does
\* not count it, whatever the actor and the visibility.
C6_DeletedNotRead ==
    \A p \in Procs :
        LET c == calls[p]
            scope == InScope(c.actor.id, c.actor.visibility)
        IN  /\ (c.op = "get" /\ c.pc = "done") =>
                /\ c.result = "ok" => Active(c.returned.id)
                /\ (c.data.id \in DOMAIN rows /\ ~Active(c.data.id)) =>
                        c.result = "ItemNotFoundError"
            /\ (c.op = "getAll" /\ c.pc = "done") =>
                \A r \in c.list : Active(r.id)
            /\ (c.op = "getCount" /\ c.pc = "done") =>
                c.count + Cardinality({i \in scope : ~Active(i)}) = Cardinality(scope)

\* An actor with visibility "all" got ItemNotFoundError from get() on a
\* record a delete() had soft-deleted.
C6_Witness ==
    \E p \in Procs :
        LET c == calls[p]
        IN  /\ c.op = "get"
            /\ c.pc = "done"
            /\ c.actor.visibility = "all"
            /\ c.data.id \in DOMAIN rows
            /\ ~Active(c.data.id)
            /\ HasDeletedEntry(c.data.id)
            /\ c.result = "ItemNotFoundError"

\* C7: is_deleted is 0 on every row create() inserts, and a row whose
\* is_deleted is 1 keeps it in every later state, under any interleaving and
\* any payload.
C7_SoftDeleteTerminal ==
    [][/\ \A id \in DOMAIN rows' : id \notin DOMAIN rows => rows'[id].is_deleted = 0
       /\ \A id \in DOMAIN rows : rows[id].is_deleted = 1 => rows'[id].is_deleted = 1]_vars

\* C8: every stored row keeps the id and the owner_user_id it was inserted
\* with, whatever update() payloads arrive.
C8_IdAndOwnerFixed ==
    \A id \in DOMAIN rows :
        /\ rows[id].id = born[id].id
        /\ rows[id].owner_user_id = born[id].owner_user_id

\* C9: the patch of an update() carrying meta leaves every previously stored
\* meta key in place: with the payload's value when the payload has the key,
\* with its previous value otherwise.
C9_MetaMerged ==
    [][\A p \in Procs :
        (/\ calls[p].op = "update"
         /\ calls[p].pc = "patch"
         /\ calls'[p].pc = "audit"
         /\ Has(calls[p].data, "meta")) =>
            LET id == calls[p].data.id
                old == rows[id].meta
                new == rows'[id].meta
                payload == calls[p].data.meta
            IN  \A k \in DOMAIN old :
                    /\ k \in DOMAIN new
                    /\ new[k] = IF k \in DOMAIN payload THEN payload[k] ELSE old[k]]_vars

\* C10: the row a create() inserts has owner_user_id equal to the calling
\* actor's id, whatever owner_user_id the payload carried.
C10_OwnerIsActor ==
    \A p \in Procs :
        LET c == calls[p]
        IN  (c.op = "create" /\ "insert" \in Steps(c)) =>
                /\ c.row.id \in DOMAIN born
                /\ born[c.row.id].owner_user_id = c.actor.id

\* A create() whose payload named another user as owner has inserted its row.
C10_Witness ==
    \E p \in Procs :
        LET c == calls[p]
        IN  /\ c.op = "create"
            /\ "insert" \in Steps(c)
            /\ Has(c.input, "owner_user_id")
            /\ c.input.owner_user_id # c.actor.id

\* C11: once a delete() has written the soft-delete flag, the record stays
\* is_deleted = 1 through every later step of the call; a delete() that fails
\* after that write ends with the failing collaborator's error (deleteConfig,
\* reload or the audit log), at the step that failed, with the flag still set.
C11_NoRollback ==
    \A p \in Procs :
        LET c == calls[p]
        IN  (c.op = "delete" /\ "patch" \in Steps(c)) =>
                /\ rows[c.row.id].is_deleted = 1
                /\ (c.pc = "done" /\ c.result # "ok") =>
                        /\ c.result \in CollaboratorErrors
                        /\ c.result = "ConfigError" <=> c.trace[Len(c.trace)] = "deleteConfig"
                        /\ c.result = "ReloadError" <=> c.trace[Len(c.trace)] = "reload"
                        /\ c.result = "AuditError" <=> c.trace[Len(c.trace)] = "audit"

\* A delete() has failed in deleteConfig: its record is soft-deleted while the
\* host's configuration is still published.
C11_Witness ==
    \E p \in Procs :
        LET c == calls[p]
        IN  /\ c.op = "delete"
            /\ c.pc = "done"
            /\ c.result = "ConfigError"
            /\ rows[c.row.id].is_deleted = 1
            /\ c.row.id \in published

\* The step at which a finished call stopped.
LastStep(c) == c.trace[Len(c.trace)]

\* The error handling of create() apart from the record's state: a create()
\* that fails after its insert ends with the error of the step that failed, at
\* that step, and the inserted row is still stored.
C12_StopsAtFailure ==
    \A p \in Procs :
        LET c == calls[p]
        IN  (c.op = "create" /\ c.pc = "done" /\ "insert" \in Steps(c) /\ c.result # "ok") =>
                /\ c.row.id \in DOMAIN rows
                /\ \/ c.result = "ConfigError" /\ c.trace = <<"check", "insert", "configure">>
                   \/ c.result = "ItemNotFoundError"
                        /\ c.trace = <<"check", "insert", "configure", "get">>
                   \/ c.result = "AuditError"
                        /\ c.trace = <<"check", "insert", "configure", "get", "audit">>
                /\ (c.result # "AuditError" => Len(audit) = 0 \/ audit[Len(audit)].object_id # c.row.id)

\* C12: a create() that fails after its insert (configure, the re-fetch or the
\* audit log fails) ends with that error at the failing step, no later step
\* having run, and the inserted record is still stored and active.
C12_InsertedStaysActive ==
    /\ C12_StopsAtFailure
    /\ \A p \in Procs :
        LET c == calls[p]
        IN  (c.op = "create" /\ c.pc = "done" /\ "insert" \in Steps(c) /\ c.result # "ok") =>
                Active(c.row.id)

\* A returned row r shows the stored row of its id with meta sanitised.
CleanOf(r) ==
    /\ r.id \in DOMAIN rows
    /\ r.meta = cleanMeta(rows[r.id].meta)
    /\ DOMAIN r.meta \cap InternalMetaKeys = {}

\* C13: the meta of every row returned by create(), update(), get() and
\* getAll() is cleanMeta of the stored meta and carries no internal-only key,
\* and the rows returned by create(), update() and get() have no is_deleted
\* field.
C13_ReturnedRowsSanitised ==
    \A p \in Procs :
        LET c == calls[p]
        IN  (c.pc = "done" /\ c.result = "ok") =>
                /\ c.op \in {"create", "update", "get"} =>
                        /\ c.returned # NoRow
                        /\ CleanOf(c.returned)
                        /\ ~Has(c.returned, "is_deleted")
                /\ c.op = "getAll" => \A r \in c.list : CleanOf(r)

\* A create() has returned a row whose stored meta holds an internal-only key.
C13_Witness ==
    \E p \in Procs :
        LET c == calls[p]
        IN  /\ c.op = "create"
            /\ c.pc = "done"
            /\ c.result = "ok"
            /\ DOMAIN rows[c.returned.id].meta \cap InternalMetaKeys # {}
            /\ c.returned.meta # rows[c.returned.id].meta

IsPrefix(t, s) == Len(t) <= Len(s) /\ \A i \in 1..Len(t) : t[i] = s[i]

\* C14: the steps of a delete() run in the order get, is_deleted write,
\* deleteConfig, reload, audit, none skipped; reload runs only when deleteConfig
\* has removed the configuration, and a delete() whose deleteConfig failed has
\* run neither reload nor the audit write.
C14_DeleteOrder ==
    \A p \in Procs :
        LET c == calls[p]
        IN  c.op = "delete" =>
                /\ IsPrefix(c.trace, <<"get", "patch", "deleteConfig", "reload", "audit">>)
                /\ "reload" \in Steps(c) => c.row.id \notin published
                /\ (c.pc = "done" /\ c.result = "ConfigError") =>
                        c.trace = <<"get", "patch", "deleteConfig">>

\* A delete() of a published host has stopped at a failed deleteConfig.
C14_Witness ==
    \E p \in Procs :
        LET c == calls[p]
        IN  /\ c.op = "delete"
            /\ c.result = "ConfigError"
            /\ LastStep(c) = "deleteConfig"
            /\ c.row.id \in published
            /\ ~HasDeletedEntry(c.row.id)

Writers == {"create", "update", "delete"}

\* The storage write of a call, the external step that follows it, and the
\* action its audit entry records.
WriteStep(op) == IF op = "create" THEN "insert" ELSE "patch"

PublishStep(op) ==
    CASE op = "create" -> "configure"
      [] op = "update" -> "patch"
      [] op = "delete" -> "reload"

AuditAction(op) ==
    CASE op = "create" -> "created"
      [] op = "update" -> "updated"
      [] op = "delete" -> "deleted"

\* A finished call's bookkeeping around the audit log.
AuditedOnce(c) ==
    /\ c.result = "ok" =>
        /\ LastStep(c) = "audit"
        /\ Cardinality({i \in DOMAIN c.trace : c.trace[i] = "audit"}) = 1
        /\ \E i, j \in DOMAIN c.trace :
              /\ i <= j
              /\ j < Len(c.trace)
              /\ c.trace[i] = WriteStep(c.op)
              /\ c.trace[j] = PublishStep(c.op)
        /\ c.logged.action = AuditAction(c.op)
        /\ c.logged.object_type = "proxy-host"
        /\ c.logged.object_id = (IF c.op = "create" THEN c.row.id ELSE c.data.id)
        /\ c.logged.object_id \in DOMAIN rows
    /\ WriteStep(c.op) \notin Steps(c) => "audit" \notin Steps(c)

\* C15: a successful create(), update() or delete() has written one audit
\* entry, as its last step, after its storage write and after configure
\* (create) or deleteConfig and reload (delete), with action created, updated or
\* deleted, object_type "proxy-host" and the record's id; a call that failed
\* before its storage write has written none; and the audit log grows by one
\* entry at a time, only by the audit step of a call that then succeeds.
C15_OneAuditEntry ==
    /\ [](\A p \in Procs :
            (calls[p].op \in Writers /\ calls[p].pc = "done") => AuditedOnce(calls[p]))
    /\ [][audit' # audit =>
            \E p \in Procs :
                /\ calls[p].op \in Writers
                /\ calls[p].pc = "audit"
                /\ calls'[p].pc = "done"
                /\ calls'[p].result = "ok"
                /\ audit' = Append(audit, Logged(calls'[p].logged))]_vars

\* An update() has succeeded and its 'updated' entry is the last in the log.
C15_Witness ==
    \E p \in Procs :
        LET c == calls[p]
        IN  /\ c.op = "update"
            /\ c.pc = "done"
            /\ c.result = "ok"
            /\ Len(audit) > 0
            /\ audit[Len(audit)] = Logged(c.logged)
            /\ audit[Len(audit)].action = "updated"

\* C16: the lookups of a create() or update() cover each requested name once,
\* in any order; the call leaves the check only when none is pending, and goes
\* on to its insert or patch only when none was taken; a call the check rejects
\* ends with one ValidationError naming the first taken name in request order,
\* whatever the order in which the lookups resolved, and has run no other step.
C16_FirstTakenInRequestOrder ==
    \A p \in Procs :
        LET c == calls[p]
            names == c.data.domain_names
        IN  (c.op \in {"create", "update"} /\ Has(c.data, "domain_names")) =>
                /\ c.pending \subseteq DOMAIN names
                /\ c.taken \subseteq (DOMAIN names) \ c.pending
                /\ c.pc = "check" =>
                        /\ c.pending # {}
                        /\ Range(c.order) = (DOMAIN names) \ c.pending
                        /\ Len(c.order) = Cardinality(Range(c.order))
                /\ c.pc # "check" => c.pending = {}
                /\ WriteStep(c.op) \in Steps(c) => c.taken = {} /\ "check" \in Steps(c)
                /\ c.pc # "check" => (c.taken # {} <=> c.result = "ValidationError")
                /\ c.result = "ValidationError" =>
                        /\ c.pc = "done"
                        /\ c.trace = <<"check">>
                        /\ Range(c.order) = DOMAIN names
                        /\ Len(c.order) = Len(names)
                        /\ \E i \in c.taken :
                              /\ \A j \in c.taken : i <= j
                              /\ c.hostname = names[i]

\* A call was rejected with two of its names taken, the lookup of the second
\* name having resolved before the lookup of the first.
C16_Witness ==
    \E p \in Procs :
        LET c == calls[p]
        IN  /\ c.result = "ValidationError"
            /\ c.taken = {1, 2}
            /\ c.order = <<2, 1>>
            /\ c.hostname = c.data.domain_names[1]

\* The meta a create() was called with.
CallerMeta(c) == IF Has(c.input, "meta") THEN c.input.meta ELSE EmptyMeta

\* The meta in the payload of the audit entry a call wrote.
LoggedMeta(c) == c.logged.meta.meta

CreateLogged(c) == c.op = "create" /\ c.pc = "done" /\ c.result = "ok"

\* C17 as claimed: the audit entry of a create() records the merge of the
\* caller's meta and the re-fetched row's meta, with the caller's value for
\* every key both have.
C17_CallerValueRecorded ==
    \A p \in Procs :
        LET c == calls[p]
        IN  CreateLogged(c) =>
                /\ DOMAIN LoggedMeta(c) = DOMAIN CallerMeta(c) \cup DOMAIN c.row.meta
                /\ \A k \in DOMAIN LoggedMeta(c) :
                        LoggedMeta(c)[k] =
                            IF k \in DOMAIN CallerMeta(c) THEN CallerMeta(c)[k] ELSE c.row.meta[k]

\* C17, amended: the audit entry of a create() records the merge of the
\* caller's meta and the re-fetched row's meta, with the re-fetched row's value
\* for every key both have; keys only the caller's meta has keep the caller's
\* value, keys only the row's meta has are added.
C17_RowValueRecorded ==
    \A p \in Procs :
        LET c == calls[p]
        IN  CreateLogged(c) =>
                /\ DOMAIN LoggedMeta(c) = DOMAIN CallerMeta(c) \cup DOMAIN c.row.meta
                /\ \A k \in DOMAIN LoggedMeta(c) :
                        LoggedMeta(c)[k] =
                            IF k \in DOMAIN c.row.meta THEN c.row.meta[k] ELSE CallerMeta(c)[k]

\* A create() has written its audit entry where the caller's meta and the
\* re-fetched row's meta disagree on a key.
C17_Witness ==
    \E p \in Procs :
        LET c == calls[p]
        IN  /\ CreateLogged(c)
            /\ \E k \in DOMAIN CallerMeta(c) \cap DOMAIN c.row.meta :
                    CallerMeta(c)[k] # c.row.meta[k]

\* C18: nothing is held between the check and the persist stage: the insert of
\* a create() and the patch of an update() that passed their checks are
\* applied with the requested names whatever the table holds at that moment,
\* so that two calls that both passed the check can both commit one name.
C18_PersistUnchecked ==
    [][\A p \in Procs :
        LET c == calls[p]
        IN  /\ (c.pc = "insert" /\ calls'[p] # c) =>
                    /\ calls'[p].pc = "configure"
                    /\ Len(rows') = Len(rows) + 1
                    /\ rows'[Len(rows')].domain_names = c.data.domain_names
            /\ (c.op = "update" /\ c.pc = "patch" /\ calls'[p] # c
                    /\ Has(c.data, "domain_names")) =>
                    /\ calls'[p].pc = "audit"
                    /\ rows'[c.data.id].domain_names = c.data.domain_names]_vars

\* Two create() calls in flight have both passed their check and both
\* inserted: their two records are active and hold a common name.
C18_Witness ==
    \E p, q \in Procs :
        LET c == calls[p]
            d == calls[q]
        IN  /\ p # q
            /\ c.op = "create" /\ d.op = "create"
            /\ c.taken = {} /\ d.taken = {}
            /\ "insert" \in Steps(c) /\ "insert" \in Steps(d)
            /\ c.row.id # d.row.id
            /\ Active(c.row.id) /\ Active(d.row.id)
            /\ Range(rows[c.row.id].domain_names) \cap Range(rows[d.row.id].domain_names) # {}

\* C19: under any interleaving, the patch of an update() is applied only to a
\* record that is not soft-deleted at that moment, and the get() of an
\* update() on a soft-deleted record ends the call with ItemNotFoundError,
\* leaving the table as it was.
C19_UpdateOnlyActive ==
    [][\A p \in Procs :
        LET c == calls[p]
        IN  (c.op = "update" /\ calls'[p] # c) =>
                /\ c.pc = "patch" => rows[c.data.id].is_deleted = 0
                /\ (c.pc = "get" /\ rows[c.data.id].is_deleted = 1) =>
                        /\ calls'[p].result = "ItemNotFoundError"
                        /\ rows' = rows]_vars

DeletedEntries(id) ==
    {k \in DOMAIN audit : audit[k].action = "deleted" /\ audit[k].object_id = id}

\* C20: under any interleaving of delete() calls on one id, at most one of
\* them succeeds: the audit log never holds more than one 'deleted' entry for
\* the id, and a delete() of the id that ends after such an entry was written
\* by another call ends with ItemNotFoundError.
C20_OneDeletePerId ==
    /\ \A id \in DOMAIN rows : Cardinality(DeletedEntries(id)) <= 1
    /\ \A p \in Procs :
        LET c == calls[p]
        IN  (/\ c.op = "delete"
             /\ c.pc = "done"
             /\ c.result # "ok"
             /\ DeletedEntries(c.data.id) # {}) => c.result = "ItemNotFoundError"

====
